---------------------------- MODULE Spec2Model ----------------------------
(***************************************************************************)
(* Model of the expense tracker bot of src/main.py: the start-up           *)
(* connection loop (get_mongo_client), the webhook, the six handlers       *)
(* (start, add_expense, today, week, month, year) and the expenses         *)
(* collection they write to and read from.                                 *)
(*                                                                         *)
(* A text (str) is a sequence of characters, a character a one-element     *)
(* string; the character written "sup2" stands for U+00B2 SUPERSCRIPT TWO, *)
(* a character for which str.isdigit() is true and int() raises.           *)
(* A calendar date is its proleptic Gregorian ordinal (date.toordinal()).  *)
(***************************************************************************)
EXTENDS Integers, Sequences, FiniteSets, TLC

VARIABLES
    pc,        \* start-up: "connecting" | "connected" | "exhausted" | "error"
    retries,   \* get_mongo_client's parameter retries
    delay,     \* get_mongo_client's parameter delay (seconds)
    attempt,   \* connection attempts made so far
    slept,     \* seconds spent in time.sleep(delay)
    ledger,    \* expenses_collection, in insertion order
    today,     \* the host clock: datetime.date.today(), as an ordinal
    ticks,     \* how many times the clock has advanced
    update,    \* the webhook request being served, or NoUpdate
    last,      \* what serving the request did, until webhook returns; else Idle
    alive      \* the process is running

vars == <<pc, retries, delay, attempt, slept, ledger, today, ticks, update, last, alive>>

-----------------------------------------------------------------------------
(* Bounds of the model. *)

MaxRetries == 5

MaxDelay == 3

MaxRecords == 2

MaxTicks == 2

MaxTextLen == 5

(* Program constants. *)

DefaultRetries == 5

DefaultDelay == 3

WeekSpan == 6

(* 2023-12-26, the day the model's clock starts at. *)
StartDay == 738880

Users == {101, 102}

-----------------------------------------------------------------------------
(* Python's str methods used by add_expense. *)

Whitespace == {" "}

DecimalChars == {"0", "1", "2", "3", "4", "5", "6", "7", "8", "9"}

\* Characters c with c.isdigit(): the decimals and the other Unicode digits.
DigitChars == DecimalChars \cup {"sup2"}

DecimalValue(c) ==
    CASE c = "0" -> 0 [] c = "1" -> 1 [] c = "2" -> 2 [] c = "3" -> 3
      [] c = "4" -> 4 [] c = "5" -> 5 [] c = "6" -> 6 [] c = "7" -> 7
      [] c = "8" -> 8 [] c = "9" -> 9

RECURSIVE SplitFrom(_, _, _)
\* text.split(): the maximal runs of non-whitespace characters, in order.
\* cur is the run being read from position i on.
SplitFrom(text, i, cur) ==
    IF i > Len(text)
    THEN IF cur = <<>> THEN <<>> ELSE <<cur>>
    ELSE IF text[i] \in Whitespace
         THEN IF cur = <<>>
              THEN SplitFrom(text, i + 1, <<>>)
              ELSE <<cur>> \o SplitFrom(text, i + 1, <<>>)
         ELSE SplitFrom(text, i + 1, Append(cur, text[i]))

Split(text) == SplitFrom(text, 1, <<>>)

\* tok.isdigit(): non-empty and every character a digit.
IsDigit(tok) == tok # <<>> /\ \A i \in 1..Len(tok) : tok[i] \in DigitChars

RECURSIVE Join(_)
\* " ".join(parts)
Join(parts) ==
    IF parts = <<>> THEN <<>>
    ELSE IF Len(parts) = 1 THEN parts[1]
    ELSE parts[1] \o <<" ">> \o Join(Tail(parts))

RECURSIVE DecimalsValue(_)
DecimalsValue(ds) ==
    IF ds = <<>> THEN 0
    ELSE 10 * DecimalsValue(SubSeq(ds, 1, Len(ds) - 1)) + DecimalValue(ds[Len(ds)])

IntDigits(tok) ==
    IF tok # <<>> /\ tok[1] \in {"-", "+"} THEN Tail(tok) ELSE tok

\* int(tok) returns (rather than raising ValueError): an optional sign and
\* one or more decimal characters.
IntParses(tok) ==
    /\ IntDigits(tok) # <<>>
    /\ \A i \in 1..Len(IntDigits(tok)) : IntDigits(tok)[i] \in DecimalChars

IntValue(tok) ==
    IF tok[1] = "-" THEN 0 - DecimalsValue(IntDigits(tok))
    ELSE DecimalsValue(IntDigits(tok))

-----------------------------------------------------------------------------
(* datetime.date and strftime. *)

\* The (year, month, day) of an ordinal, as date.fromordinal computes it.
YMD(ordinal) ==
    LET z   == ordinal + 305
        era == z \div 146097
        doe == z - era * 146097
        yoe == (doe - (doe \div 1460) + (doe \div 36524) - (doe \div 146096)) \div 365
        doy == doe - (365 * yoe + (yoe \div 4) - (yoe \div 100))
        mp  == (5 * doy + 2) \div 153
        d   == doy - ((153 * mp + 2) \div 5) + 1
        m   == IF mp < 10 THEN mp + 3 ELSE mp - 9
        y   == yoe + era * 400 + (IF m <= 2 THEN 1 ELSE 0)
    IN  [y |-> y, m |-> m, d |-> d]

DigitChar(n) == <<"0", "1", "2", "3", "4", "5", "6", "7", "8", "9">>[n + 1]

RECURSIVE Pad(_, _)
\* n in decimal, zero-padded to width w (%Y has w = 4, %m and %d have w = 2).
Pad(n, w) ==
    IF w = 0 THEN <<>> ELSE Append(Pad(n \div 10, w - 1), DigitChar(n % 10))

\* strftime("%Y-%m-%d")
FormatDate(ordinal) ==
    LET t == YMD(ordinal)
    IN  Pad(t.y, 4) \o <<"-">> \o Pad(t.m, 2) \o <<"-">> \o Pad(t.d, 2)

\* strftime("%Y-%m")
FormatMonth(ordinal) ==
    LET t == YMD(ordinal) IN Pad(t.y, 4) \o <<"-">> \o Pad(t.m, 2)

\* strftime("%Y")
FormatYear(ordinal) == Pad(YMD(ordinal).y, 4)

\* The code point of a character of a date string.
Ord(c) == IF c = "-" THEN 45 ELSE 48 + DecimalValue(c)

RECURSIVE StrLe(_, _)
\* a <= b for strings, as the store compares them: by code point, a proper
\* prefix first.
StrLe(a, b) ==
    IF a = <<>> THEN TRUE
    ELSE IF b = <<>> THEN FALSE
    ELSE IF Ord(a[1]) < Ord(b[1]) THEN TRUE
    ELSE IF Ord(a[1]) > Ord(b[1]) THEN FALSE
    ELSE StrLe(Tail(a), Tail(b))

\* s matches the regular expression ^prefix.
StartsWith(s, prefix) ==
    Len(s) >= Len(prefix) /\ SubSeq(s, 1, Len(prefix)) = prefix

-----------------------------------------------------------------------------
(* Start-up: client = get_mongo_client(MONGO_URI). *)

ConnectOutcomes == {"ok", "timeout", "error"}

\* Variant of LoopContinues with an off-by-one loop bound (range(retries + 1)).
LoopContinuesInclusive(n, r) == n <= r

\* for attempt in range(retries): the loop body runs again.
LoopContinues(n, r) == n < r

\* except ServerSelectionTimeoutError: the only exception the loop retries.
Retried(outcome) == outcome = "timeout"

\* One iteration of the loop: MongoClient(...), ping, and on a timeout the
\* sleep. Any other exception leaves the function, and the import, at once.
Connect(outcome) ==
    /\ pc = "connecting"
    /\ LoopContinues(attempt, retries)
    /\ attempt' = attempt + 1
    /\ IF outcome = "ok"
       THEN pc' = "connected" /\ UNCHANGED <<slept, alive>>
       ELSE IF Retried(outcome)
            THEN slept' = slept + delay /\ UNCHANGED <<pc, alive>>
            ELSE pc' = "error" /\ alive' = FALSE /\ UNCHANGED slept
    /\ UNCHANGED <<retries, delay, ledger, today, ticks, update, last>>

\* The loop has ended without a return: raise Exception("Could not connect").
GiveUp ==
    /\ pc = "connecting"
    /\ ~LoopContinues(attempt, retries)
    /\ pc' = "exhausted"
    /\ alive' = FALSE
    /\ UNCHANGED <<retries, delay, attempt, slept, ledger, today, ticks, update, last>>

-----------------------------------------------------------------------------
(* Requests and what serving one leaves behind. *)

NoUpdate == [kind |-> "none", user |-> 0, text |-> <<>>]

\* A request whose body Update.de_json cannot read.
Malformed == [kind |-> "malformed", user |-> 0, text |-> <<>>]

Message(u, t) == [kind |-> "message", user |-> u, text |-> t]

NoReply == [kind |-> "none", lines |-> <<>>, total |-> 0]

Reply(k, ls, t) == [kind |-> k, lines |-> ls, total |-> t]

Idle ==
    [handler |-> "none", user |-> 0, text |-> <<>>, day |-> 0, up |-> TRUE,
     reply |-> NoReply, sent |-> FALSE, records |-> <<>>, exc |-> "none",
     http |-> "none"]

\* The texts of the five commands.
Command(name) ==
    CASE name = "start" -> <<"/", "s", "t", "a", "r", "t">>
      [] name = "today" -> <<"/", "t", "o", "d", "a", "y">>
      [] name = "week"  -> <<"/", "w", "e", "e", "k">>
      [] name = "month" -> <<"/", "m", "o", "n", "t", "h">>
      [] name = "year"  -> <<"/", "y", "e", "a", "r">>

CommandNames == {"start", "today", "week", "month", "year"}

\* The handler the dispatcher runs for a message: the CommandHandler whose
\* command the text starts with, else add_expense for a text that is no
\* command (filters.TEXT & ~filters.COMMAND), else none.
Dispatch(text) ==
    IF text = <<>> THEN "none"
    ELSE IF text[1] = "/"
         THEN LET named == {c \in CommandNames : Command(c) = Split(text)[1]}
              IN  IF named = {} THEN "none" ELSE CHOOSE c \in named : TRUE
         ELSE "add_expense"

\* except Exception as e, in each handler: every exception raised while
\* handling is caught.
HandlerCatches(exc) == exc \in {"ValueError", "ServerSelectionTimeoutError", "NetworkError"}

\* Variant of WebhookCatches that names the handlers' exceptions instead of
\* Exception, and so lets a request that cannot be parsed through.
WebhookCatchesHandlerErrors(exc) ==
    exc \in {"ValueError", "ServerSelectionTimeoutError", "NetworkError"}

\* except Exception as e, in webhook.
WebhookCatches(exc) ==
    exc \in {"BadRequest", "ValueError", "ServerSelectionTimeoutError", "NetworkError"}

\* What webhook returns for the exception that reached it, if any.
WebhookReturn(exc) ==
    IF exc = "none" THEN "ok"
    ELSE IF WebhookCatches(exc) THEN "error"
    ELSE "uncaught"

\* update.message.reply_text(reply): delivered, or raising NetworkError.
Send(reply, sendOk) ==
    [reply |-> reply, sent |-> sendOk,
     exc |-> IF sendOk THEN "none" ELSE "NetworkError"]

\* The request has been served by handler h with result res.
Served(h, up, res) ==
    LET escaped == IF res.exc # "none" /\ ~HandlerCatches(res.exc)
                   THEN res.exc ELSE "none"
        http    == WebhookReturn(escaped)
    IN  /\ last' = [handler |-> h, user |-> update.user, text |-> update.text,
                    day |-> today, up |-> up, reply |-> res.reply,
                    sent |-> res.sent, records |-> res.records,
                    exc |-> res.exc, http |-> http]
        /\ alive' = (http # "uncaught")
        /\ update' = NoUpdate
        /\ UNCHANGED <<pc, retries, delay, attempt, slept, today, ticks>>

Serving(h) ==
    /\ pc = "connected"
    /\ alive
    /\ update.kind = "message"
    /\ Dispatch(update.text) = h

-----------------------------------------------------------------------------
(* The expenses collection. *)

RECURSIVE Orderings(_)
\* Every sequence that lists each element of the finite set S once.
Orderings(S) ==
    IF S = {} THEN {<<>>}
    ELSE UNION {{<<x>> \o p : p \in Orderings(S \ {x})} : x \in S}

\* "date": date
TodayFilter(date, day) == date = FormatDate(day)

\* Variant of WeekFilter with "$gt" for "$gte".
WeekFilterExclusive(date, day) ==
    /\ StrLe(FormatDate(day - WeekSpan), date)
    /\ date # FormatDate(day - WeekSpan)
    /\ StrLe(date, FormatDate(day))

\* "date": {"$gte": start_date, "$lte": end_date}
WeekFilter(date, day) ==
    /\ StrLe(FormatDate(day - WeekSpan), date)
    /\ StrLe(date, FormatDate(day))

\* "date": {"$regex": f"^{month_str}"}
MonthFilter(date, day) == StartsWith(date, FormatMonth(day))

\* "date": {"$regex": f"^{year_str}"}
YearFilter(date, day) == StartsWith(date, FormatYear(day))

\* The date filter of the find of each report.
DateFilter(report, date, day) ==
    CASE report = "today" -> TodayFilter(date, day)
      [] report = "week"  -> WeekFilter(date, day)
      [] report = "month" -> MonthFilter(date, day)
      [] report = "year"  -> YearFilter(date, day)

\* The positions in the collection of the documents the find of a report
\* matches: those of user_id u whose date passes the report's filter.
Matching(coll, u, report, day) ==
    {i \in 1..Len(coll) : coll[i].user_id = u /\ DateFilter(report, coll[i].date, day)}

\* list(expenses_collection.find(...)): the matching documents, in an order
\* the store chooses.
Find(coll, u, report, day) ==
    {[i \in 1..Len(p) |-> coll[p[i]]] : p \in Orderings(Matching(coll, u, report, day))}

-----------------------------------------------------------------------------
(* The handlers. Each operator gives the handler's result: the reply it    *)
(* made, whether the reply was delivered, the documents it read, and the   *)
(* exception its outer try caught ("none" when there was none).            *)

Result(sending, records) ==
    [reply |-> sending.reply, sent |-> sending.sent, exc |-> sending.exc,
     records |-> records]

Raised(exc) == [reply |-> NoReply, sent |-> FALSE, exc |-> exc, records |-> <<>>]

\* start
StartResult(sendOk) == Result(Send(Reply("start", <<>>, 0), sendOk), <<>>)

\* Variant of Accepts without the isdigit() test.
AcceptsAnyAmount(parts) == Len(parts) >= 2

\* if len(parts) < 2 or not parts[-1].isdigit(): the negation of the test.
Accepts(parts) == Len(parts) >= 2 /\ IsDigit(parts[Len(parts)])

\* The document add_expense builds from an accepted text.
NewRecord(u, day, parts) ==
    [user_id |-> u,
     date    |-> FormatDate(day),
     item    |-> Join(SubSeq(parts, 1, Len(parts) - 1)),
     amount  |-> IntValue(parts[Len(parts)])]

\* Variant of InsertOne that keeps one document per user (replace_one on
\* user_id with upsert) instead of adding a document.
InsertOneReplacing(coll, rec) ==
    IF \E i \in 1..Len(coll) : coll[i].user_id = rec.user_id
    THEN LET i == CHOOSE j \in 1..Len(coll) :
                     /\ coll[j].user_id = rec.user_id
                     /\ \A k \in (j + 1)..Len(coll) : coll[k].user_id # rec.user_id
         IN  [coll EXCEPT ![i] = rec]
    ELSE Append(coll, rec)

\* expenses_collection.insert_one(rec)
InsertOne(coll, rec) == Append(coll, rec)

\* add_expense: the collection after it, and its result.
AddExpenseResult(coll, u, day, text, up, sendOk) ==
    LET parts == Split(text)
    IN  IF ~Accepts(parts)
        THEN [coll |-> coll,
              res  |-> Result(Send(Reply("format_hint", <<>>, 0), sendOk), <<>>)]
        ELSE IF ~IntParses(parts[Len(parts)])
        THEN [coll |-> coll, res |-> Raised("ValueError")]
        ELSE LET rec == NewRecord(u, day, parts)
             IN  IF ~up
                 THEN [coll |-> coll,
                       res  |-> Result(Send(Reply("try_again", <<>>, 0), sendOk), <<>>)]
                 ELSE [coll |-> InsertOne(coll, rec),
                       res  |-> Result(Send(Reply("recorded", <<<<rec.item, rec.amount>>>>,
                                                  rec.amount), sendOk), <<>>)]

RECURSIVE SumAmounts(_)
\* sum(r["amount"] for r in records)
SumAmounts(records) ==
    IF records = <<>> THEN 0
    ELSE records[1].amount + SumAmounts(Tail(records))

\* format_expenses: one line per record, in the order given, and the total.
FormatExpenses(records) ==
    [text  |-> [i \in 1..Len(records) |->
                   <<records[i].date, records[i].item, records[i].amount>>],
     total |-> SumAmounts(records)]

\* Variant of ListReport without the "if not records" test.
ListReportAlways(records, up, sendOk) ==
    IF ~up THEN Raised("ServerSelectionTimeoutError")
    ELSE LET f == FormatExpenses(records)
         IN  Result(Send(Reply("report", f.text, f.total), sendOk), records)

\* today, week and month after the find: the empty-state message when the
\* list is empty, else the lines and the total of format_expenses. A find
\* that raises is caught by the outer try, which only prints.
ListReport(records, up, sendOk) ==
    IF ~up THEN Raised("ServerSelectionTimeoutError")
    ELSE IF records = <<>>
    THEN Result(Send(Reply("empty", <<>>, 0), sendOk), records)
    ELSE LET f == FormatExpenses(records)
         IN  Result(Send(Reply("report", f.text, f.total), sendOk), records)

\* The position of month key m in the dict d, or 0.
KeyIndex(d, m) ==
    IF \E i \in 1..Len(d) : d[i][1] = m
    THEN CHOOSE i \in 1..Len(d) : d[i][1] = m
    ELSE 0

\* Variant of AddToMonth that assigns the amount instead of adding it.
AddToMonthAssigning(d, m, amount) ==
    IF KeyIndex(d, m) = 0
    THEN Append(d, <<m, amount>>)
    ELSE [d EXCEPT ![KeyIndex(d, m)] = <<m, amount>>]

\* month_totals[month] = month_totals.get(month, 0) + r["amount"], on the
\* dict d: a sequence of <<key, value>> in insertion order.
AddToMonth(d, m, amount) ==
    IF KeyIndex(d, m) = 0
    THEN Append(d, <<m, 0 + amount>>)
    ELSE [d EXCEPT ![KeyIndex(d, m)] = <<m, d[KeyIndex(d, m)][2] + amount>>]

RECURSIVE MonthTotals(_)
\* for r in records: month = r["date"][:7]; month_totals[month] = ...
MonthTotals(records) ==
    IF records = <<>> THEN <<>>
    ELSE LET r == records[Len(records)]
         IN  AddToMonth(MonthTotals(SubSeq(records, 1, Len(records) - 1)),
                        SubSeq(r.date, 1, 7), r.amount)

RECURSIVE SortedKeys(_)
\* sorted(month_totals.keys()): the keys in ascending order of StrLe.
SortedKeys(keys) ==
    IF keys = {} THEN <<>>
    ELSE LET least == CHOOSE k \in keys : \A j \in keys : StrLe(k, j)
         IN  <<least>> \o SortedKeys(keys \ {least})

\* Variant of RenderOrder without sorted(): the dict's insertion order.
RenderOrderInserted(d) == [i \in 1..Len(d) |-> d[i][1]]

\* The order in which year renders the keys of month_totals.
RenderOrder(d) == SortedKeys({d[i][1] : i \in 1..Len(d)})

RECURSIVE SumValues(_)
\* sum(month_totals.values())
SumValues(d) == IF d = <<>> THEN 0 ELSE d[1][2] + SumValues(Tail(d))

\* year after the find.
YearReport(records, up, sendOk) ==
    IF ~up THEN Raised("ServerSelectionTimeoutError")
    ELSE IF records = <<>>
    THEN Result(Send(Reply("empty", <<>>, 0), sendOk), records)
    ELSE LET d     == MonthTotals(records)
             order == RenderOrder(d)
             lines == [i \in 1..Len(order) |->
                          <<order[i], d[KeyIndex(d, order[i])][2]>>]
         IN  Result(Send(Reply("report", lines, SumValues(d)), sendOk), records)

-----------------------------------------------------------------------------
(* The actions. *)

\* The texts the users send in Spec: an expense, a text add_expense rejects,
\* a text whose amount int() cannot read, no text at all (a photo), and the
\* five commands.
MainTexts ==
    {<<"a", " ", "2">>, <<"a", " ", "-", "1">>, <<"a", " ", "sup2">>, <<>>}
    \cup {Command(c) : c \in CommandNames}

\* The texts of SpecEntry: every text of at most MaxTextLen characters over
\* a letter, the space, a decimal, the minus sign and a non-decimal digit.
EntryAlphabet == {"a", " ", "1", "-", "sup2"}

EntryTexts == UNION {[1..n -> EntryAlphabet] : n \in 0..MaxTextLen}

\* The days the clock may advance by at once.
Strides == {WeekSpan, 30}

\* Telegram posts an update to the webhook route.
Receive(u, text) ==
    /\ pc = "connected"
    /\ alive
    /\ update = NoUpdate
    /\ last = Idle
    /\ update' = Message(u, text)
    /\ UNCHANGED <<pc, retries, delay, attempt, slept, ledger, today, ticks, last, alive>>

\* A request whose body is no update arrives.
ReceiveMalformed ==
    /\ pc = "connected"
    /\ alive
    /\ update = NoUpdate
    /\ last = Idle
    /\ update' = Malformed
    /\ UNCHANGED <<pc, retries, delay, attempt, slept, ledger, today, ticks, last, alive>>

\* webhook: Update.de_json raises, the except returns "error".
BadRequest ==
    /\ pc = "connected"
    /\ alive
    /\ update.kind = "malformed"
    /\ last' = [Idle EXCEPT !.handler = "webhook", !.day = today,
                            !.exc = "BadRequest",
                            !.http = WebhookReturn("BadRequest")]
    /\ alive' = (WebhookReturn("BadRequest") # "uncaught")
    /\ update' = NoUpdate
    /\ UNCHANGED <<pc, retries, delay, attempt, slept, ledger, today, ticks>>

\* webhook: no handler takes the update, process_update returns.
NoHandler ==
    /\ Serving("none")
    /\ Served("unhandled", TRUE, Raised("none"))
    /\ UNCHANGED ledger

Start(sendOk) ==
    /\ Serving("start")
    /\ Served("start", TRUE, StartResult(sendOk))
    /\ UNCHANGED ledger

AddExpense(up, sendOk) ==
    /\ Serving("add_expense")
    /\ LET r == AddExpenseResult(ledger, update.user, today, update.text, up, sendOk)
       IN  /\ Len(r.coll) <= MaxRecords
           /\ ledger' = r.coll
           /\ Served("add_expense", up, r.res)

Today(up, sendOk) ==
    /\ Serving("today")
    /\ \E records \in Find(ledger, update.user, "today", today) :
          Served("today", up, ListReport(records, up, sendOk))
    /\ UNCHANGED ledger

Week(up, sendOk) ==
    /\ Serving("week")
    /\ \E records \in Find(ledger, update.user, "week", today) :
          Served("week", up, ListReport(records, up, sendOk))
    /\ UNCHANGED ledger

Month(up, sendOk) ==
    /\ Serving("month")
    /\ \E records \in Find(ledger, update.user, "month", today) :
          Served("month", up, ListReport(records, up, sendOk))
    /\ UNCHANGED ledger

Year(up, sendOk) ==
    /\ Serving("year")
    /\ \E records \in Find(ledger, update.user, "year", today) :
          Served("year", up, YearReport(records, up, sendOk))
    /\ UNCHANGED ledger

\* webhook has returned "ok" or "error": the request is over.
Return ==
    /\ update = NoUpdate
    /\ last # Idle
    /\ last' = Idle
    /\ UNCHANGED <<pc, retries, delay, attempt, slept, ledger, today, ticks, update, alive>>

\* The host's date moves on by k days, between two requests.
Tick(k) ==
    /\ pc = "connected"
    /\ update = NoUpdate
    /\ last = Idle
    /\ ticks < MaxTicks
    /\ today' = today + k
    /\ ticks' = ticks + 1
    /\ UNCHANGED <<pc, retries, delay, attempt, slept, ledger, update, last, alive>>

-----------------------------------------------------------------------------
(* The specifications. *)

\* The document add_expense stores for "a 1" from user 101 on StartDay.
SeedRecord == NewRecord(101, StartDay, <<<<"a">>, <<"1">>>>)

\* The process has imported main.py, its first connection attempt having
\* succeeded; the collection, which outlives the process, is empty or holds
\* SeedRecord.
Init ==
    /\ pc = "connected"
    /\ retries = DefaultRetries
    /\ delay = DefaultDelay
    /\ attempt = 1
    /\ slept = 0
    /\ ledger \in {<<>>, <<SeedRecord>>}
    /\ today = StartDay
    /\ ticks = 0
    /\ update = NoUpdate
    /\ last = Idle
    /\ alive = TRUE

Next ==
    \/ \E u \in Users, text \in MainTexts : Receive(u, text)
    \/ ReceiveMalformed
    \/ BadRequest
    \/ NoHandler
    \/ \E sendOk \in BOOLEAN : Start(sendOk)
    \/ \E up \in BOOLEAN, sendOk \in BOOLEAN : AddExpense(up, sendOk)
    \/ \E up \in BOOLEAN, sendOk \in BOOLEAN : Today(up, sendOk)
    \/ \E up \in BOOLEAN, sendOk \in BOOLEAN : Week(up, sendOk)
    \/ \E up \in BOOLEAN, sendOk \in BOOLEAN : Month(up, sendOk)
    \/ \E up \in BOOLEAN, sendOk \in BOOLEAN : Year(up, sendOk)
    \/ Return
    \/ \E k \in Strides : Tick(k)

Spec == Init /\ [][Next]_vars

\* add_expense on every text of EntryTexts: one text message is being
\* served, the collection is empty or holds one document.
InitEntry ==
    /\ pc = "connected"
    /\ retries = DefaultRetries
    /\ delay = DefaultDelay
    /\ attempt = 1
    /\ slept = 0
    /\ ledger \in {<<>>, <<SeedRecord>>}
    /\ today = StartDay
    /\ ticks = 0
    /\ update \in {Message(u, t) : u \in Users, t \in EntryTexts}
    /\ last = Idle
    /\ alive = TRUE

NextEntry ==
    \/ \E up \in BOOLEAN, sendOk \in BOOLEAN : AddExpense(up, sendOk)
    \/ NoHandler
    \/ Return

SpecEntry == InitEntry /\ [][NextEntry]_vars

\* main.py is being imported: get_mongo_client has been called.
InitStartup ==
    /\ pc = "connecting"
    /\ retries \in 0..MaxRetries
    /\ delay \in 1..MaxDelay
    /\ attempt = 0
    /\ slept = 0
    /\ ledger = <<>>
    /\ today = StartDay
    /\ ticks = 0
    /\ update = NoUpdate
    /\ last = Idle
    /\ alive = TRUE

NextStartup ==
    \/ \E outcome \in ConnectOutcomes : Connect(outcome)
    \/ GiveUp

\* Every attempt ends (serverSelectionTimeoutMS) and every sleep ends, so
\* the loop keeps taking steps.
SpecStartup == InitStartup /\ [][NextStartup]_vars /\ WF_vars(NextStartup)

-----------------------------------------------------------------------------
(* Terms of the properties. *)

Reports == {"today", "week", "month", "year"}

\* This step serves the text message in update.
ServesMessage == update.kind = "message" /\ update' = NoUpdate

\* This step serves the request in update, whatever it is.
ServesRequest == update.kind # "none" /\ update' = NoUpdate

\* A token is digits-only: non-empty, every character passing the
\* digits-only check.
DigitsOnly(tok) == tok # <<>> /\ \A i \in 1..Len(tok) : tok[i] \in DigitChars

\* A text is well formed: at least two tokens, the last digits-only.
WellFormed(text) ==
    LET parts == Split(text)
    IN  Len(parts) >= 2 /\ DigitsOnly(parts[Len(parts)])

DigitValue(c) == IF c = "sup2" THEN 2 ELSE DecimalValue(c)

RECURSIVE DigitsValue(_)
\* The integer a digits-only token denotes.
DigitsValue(tok) ==
    IF tok = <<>> THEN 0
    ELSE 10 * DigitsValue(SubSeq(tok, 1, Len(tok) - 1)) + DigitValue(tok[Len(tok)])

\* The date predicate of a report, on a record's date d, the report being
\* made on day t: by the calendar for the week, by prefix for month and year.
DateMatches(report, d, t) ==
    CASE report = "today" -> d = FormatDate(t)
      [] report = "week"  -> \E k \in 0..WeekSpan : d = FormatDate(t - k)
      [] report = "month" -> SubSeq(d, 1, 7) = FormatMonth(t)
      [] report = "year"  -> SubSeq(d, 1, 4) = FormatYear(t)

\* The positions of the stored records the report in last is about.
Matched ==
    {i \in 1..Len(ledger) :
        /\ ledger[i].user_id = last.user
        /\ DateMatches(last.handler, ledger[i].date, last.day)}

Range(seq) == {seq[i] : i \in 1..Len(seq)}

RECURSIVE SumOver(_, _)
\* The sum of f[i] over the finite set S of positions.
SumOver(f, S) ==
    IF S = {} THEN 0
    ELSE LET i == CHOOSE j \in S : TRUE IN f[i] + SumOver(f, S \ {i})

\* A report has been served with the store reachable.
ReportServed == last.handler \in Reports /\ last.up

-----------------------------------------------------------------------------
(* The properties. *)

\* C1: serving a text that is no command and is not well formed (fewer than
\* two tokens, or a last token that is not digits-only) leaves the ledger
\* exactly as it was.
C1_RejectedTextStoresNothing ==
    [][(ServesMessage /\ Dispatch(update.text) \in {"add_expense", "none"}
          /\ ~WellFormed(update.text))
        => ledger' = ledger]_vars

\* C1 witness: add_expense has answered a two-token text whose last token
\* starts with a minus sign with the format hint, the stored record untouched.
C1_Witness ==
    /\ last.handler = "add_expense"
    /\ Len(Split(last.text)) = 2
    /\ Split(last.text)[2][1] = "-"
    /\ last.reply.kind = "format_hint"
    /\ ledger = <<SeedRecord>>

\* C2: serving a well-formed text with the store reachable appends exactly
\* one record: the sender's, dated today, its item the tokens but the last
\* joined by single spaces, its amount the integer the last token denotes.
C2_WellFormedTextIsStored ==
    [][(ServesMessage /\ Dispatch(update.text) = "add_expense"
          /\ WellFormed(update.text) /\ last'.up)
        => /\ Len(ledger') = Len(ledger) + 1
           /\ SubSeq(ledger', 1, Len(ledger)) = ledger
           /\ LET parts == Split(update.text)
                  rec   == ledger'[Len(ledger')]
              IN  /\ rec.user_id = update.user
                  /\ rec.date = FormatDate(today)
                  /\ rec.item = Join(SubSeq(parts, 1, Len(parts) - 1))
                  /\ rec.amount = DigitsValue(parts[Len(parts)])]_vars

\* C3: a report served with the store reachable has read every stored
\* record of the requesting user whose date its predicate matches.
C3_RoundTrip ==
    ReportServed => \A i \in Matched : ledger[i] \in Range(last.records)

\* C3 witness: a weekly report has read a record dated exactly six days
\* before the day of the report, stored before a later record.
C3_Witness ==
    /\ ReportServed
    /\ last.handler = "week"
    /\ Len(ledger) = 2
    /\ ledger[1].user_id = last.user
    /\ ledger[1].date = FormatDate(last.day - WeekSpan)
    /\ ledger[1] \in Range(last.records)

\* C4: every handler whose store operation failed has made the "try again"
\* reply: add_expense on its insert, the four reports on their find.
C4_OutageIsSurfaced ==
    /\ (last.handler \in Reports /\ ~last.up) => last.reply.kind = "try_again"
    /\ (last.handler = "add_expense" /\ ~last.up /\ WellFormed(last.text)
          /\ IntParses(Split(last.text)[Len(Split(last.text))]))
        => last.reply.kind = "try_again"

\* C5: the total of a daily, weekly or monthly report is the sum of the
\* amounts of the records read; in a yearly report the subtotals of the
\* lines add up to the total, which is the sum of the amounts of the records
\* read.
C5_TotalsAddUp ==
    (ReportServed /\ last.reply.kind = "report")
    => LET amounts == [i \in 1..Len(last.records) |-> last.records[i].amount]
           sum     == SumOver(amounts, 1..Len(last.records))
           lines   == last.reply.lines
       IN  /\ last.reply.total = sum
           /\ last.handler = "year" =>
                 SumOver([i \in 1..Len(lines) |-> lines[i][2]], 1..Len(lines)) = sum

\* C5 witness: a yearly report over two records of one month, of amounts
\* 1 and 2.
C5_Witness ==
    /\ ReportServed
    /\ last.handler = "year"
    /\ Len(last.records) = 2
    /\ Len(last.reply.lines) = 1
    /\ last.reply.total = 3

\* C6: the lines of a yearly report are one per month key (the first seven
\* characters of the date) of the records read, in strictly ascending order
\* of the key.
C6_YearLinesSorted ==
    (ReportServed /\ last.handler = "year" /\ last.reply.kind = "report")
    => LET lines == last.reply.lines
       IN  /\ {lines[i][1] : i \in 1..Len(lines)}
                = {SubSeq(r.date, 1, 7) : r \in Range(last.records)}
           /\ \A i \in 1..Len(lines), j \in 1..Len(lines) :
                 i < j => lines[i][1] # lines[j][1] /\ StrLe(lines[i][1], lines[j][1])

\* C6 witness: a yearly report of two lines whose records the store
\* returned with the later month first.
C6_Witness ==
    /\ ReportServed
    /\ last.handler = "year"
    /\ Len(last.reply.lines) = 2
    /\ Len(last.records) = 2
    /\ SubSeq(last.records[1].date, 1, 7) = last.reply.lines[2][1]

\* C7: a report served with the store reachable is the empty-state message
\* when no stored record of the requesting user matches its date predicate,
\* and is lines and a total, with at least one line, exactly when one does.
C7_EmptyStateOrReport ==
    ReportServed
    => /\ Matched = {} => last.reply.kind = "empty"
       /\ Matched # {} => last.reply.kind = "report" /\ last.reply.lines # <<>>

\* C7 witness: the empty-state message for a user while the ledger holds
\* another user's record of today.
C7_Witness ==
    /\ ReportServed
    /\ last.handler = "today"
    /\ last.reply.kind = "empty"
    /\ \E i \in 1..Len(ledger) :
          ledger[i].user_id # last.user /\ ledger[i].date = FormatDate(last.day)

\* The request served by this step failed: webhook returned "error", the
\* handler caught an exception, or it answered with an error message.
FailedRequest ==
    \/ last'.http = "error"
    \/ last'.exc # "none"
    \/ last'.reply.kind \in {"format_hint", "try_again"}

\* C8: serving a request never ends the process, and a request that failed
\* changes nothing a later request is handled by (the clock, the connection,
\* the ledger) except for the one record it stored itself, if it did.
C8_FailuresAreContained ==
    [][ServesRequest
        => /\ alive'
           /\ pc' = pc
           /\ today' = today
           /\ FailedRequest =>
                 \/ ledger' = ledger
                 \/ /\ last'.reply.kind = "recorded"
                    /\ Len(ledger') = Len(ledger) + 1
                    /\ SubSeq(ledger', 1, Len(ledger)) = ledger]_vars

\* C8 witness: after a request that could not be parsed and was answered
\* "error", a record has been stored.
C8_Witness ==
    /\ alive
    /\ last.handler = "webhook"
    /\ last.http = "error"
    /\ Len(ledger) = 1

\* C9: every step keeps every stored record at its place, unchanged, and
\* adds at most one record; serving a command adds none.
C9_AppendOnly ==
    [][/\ Len(ledger') \in {Len(ledger), Len(ledger) + 1}
       /\ SubSeq(ledger', 1, Len(ledger)) = ledger
       /\ (ServesMessage /\ Dispatch(update.text) \in CommandNames)
            => ledger' = ledger]_vars

\* C9 witness: a second record of the same user and date has been stored
\* after the first.
C9_Witness ==
    /\ Len(ledger) = 2
    /\ ledger[1].user_id = ledger[2].user_id
    /\ ledger[1].date = ledger[2].date
    /\ last.handler = "add_expense"
    /\ last.reply.kind = "recorded"

\* C10: get_mongo_client makes at most retries attempts, sleeping delay
\* after each one that timed out; once it has returned or raised it makes no
\* further attempt; it returns on the first attempt that succeeds; it gives
\* up only when retries attempts have all timed out; and it ends.
C10_BoundedRetry ==
    /\ [](attempt <= retries)
    /\ [][slept' \in {slept, slept + delay}]_vars
    /\ [][pc # "connecting" => UNCHANGED <<pc, attempt, slept>>]_vars
    /\ [](pc = "connected" => slept = (attempt - 1) * delay)
    /\ [](pc = "exhausted" => attempt = retries /\ slept = retries * delay)
    /\ <>(pc # "connecting")

\* C10 witness: with the default parameters, the loop has given up.
C10_Witness ==
    /\ pc = "exhausted"
    /\ retries = DefaultRetries
    /\ delay = DefaultDelay
    /\ attempt = 5

=============================================================================
